---- MODULE Spec2Model ----
(***************************************************************************)
(* Model of src/core/converter/mod.rs: the directive matcher (DirPattern,  *)
(* find_dir, FoundDir), the structural-directive recursion                 *)
(* (BuiltinConverter::convert_structural_dir) and the root converter       *)
(* (BuiltinConverter::convert_ir / dispatch_ast).                          *)
(*                                                                         *)
(* Rust indices are 0-based; sequences here are 1-based, so a Rust         *)
(* position p is modelled as p + 1 and Option::None as some = FALSE.       *)
(* A Directive is [name, id]; id stands for every field other than the    *)
(* name (argument, expression, modifiers, location), so two directives of  *)
(* the same name are still distinguishable.                                *)
(* The abstract trait methods (convert_element, convert_if, ...) have no   *)
(* body in the source; each is an opaque constructor of its arguments.     *)
(***************************************************************************)
EXTENDS Integers, Sequences, FiniteSets, TLC

\* ------------------------------------------------------------------ bounds
MaxDirs == 3
MaxPat == 2
MaxChildren == 2

\* ------------------------------------------------------------- input sets
Names == {"if", "else-if", "else", "for", "bind"}
PatNames == {"if", "for", "bind"}
ChildDirNames == {<<>>, <<"if">>, <<"for">>, <<"bind">>, <<"for", "if">>}

\* the array literal of convert_structural_dir (mod.rs:141)
StructuralPattern == [kind |-> "arr", names |-> <<"if", "else-if", "else", "for">>]

SeqsUpTo(S, n) == UNION {[1..k -> S] : k \in 0..n}

\* a Vec<Directive> built from a list of names, ids in declaration order
MkDirs(names) == [i \in 1..Len(names) |-> [name |-> names[i], id |-> i]]

\* Element: only the directive list is read or written by this module
MkElement(names) == [directives |-> MkDirs(names)]

Elements == {MkElement(ns) : ns \in SeqsUpTo(Names, MaxDirs)}

Patterns ==
    {[kind |-> "str", name |-> n] : n \in Names}
        \cup {[kind |-> "arr", names |-> ns] : ns \in SeqsUpTo(PatNames, MaxPat)}
        \cup {StructuralPattern}

AstNodes ==
    {[kind |-> k] : k \in {"Text", "SlotOutlet", "Comment", "Interpolation"}}
        \cup {[kind |-> k, e |-> MkElement(ns)] :
                 k \in {"Plain", "Component", "Template"}, ns \in ChildDirNames}

AstRoots == SeqsUpTo(AstNodes, MaxChildren)

\* --------------------------------------------------------------- DirPattern
\* impl DirPattern for &str
is_match_str(self, name) == name = self.name

\* only the first name of the array is compared
is_match_arr_first(self, name) == Len(self.names) > 0 /\ self.names[1] = name
\* the test negated
is_match_arr_neg(self, name) == ~\E i \in 1..Len(self.names) : self.names[i] = name
\* impl DirPattern for [&'static str; N]  (slice::contains, a linear scan)
is_match_arr(self, name) == \E i \in 1..Len(self.names) : self.names[i] = name

is_match(pattern, name) ==
    IF pattern.kind = "str" THEN is_match_str(pattern, name)
    ELSE is_match_arr(pattern, name)

\* ----------------------------------------------------------------- find_dir
\* Iterator::position: scan from the front, stop at the first match; 0 = None
RECURSIVE PositionFrom(_, _, _)
PositionFrom(dirs, pattern, i) ==
    IF i > Len(dirs) THEN 0
    ELSE IF is_match(pattern, dirs[i].name) THEN i
    ELSE PositionFrom(dirs, pattern, i + 1)

\* rposition instead of position: the last match
RECURSIVE RPositionFrom(_, _, _)
RPositionFrom(dirs, pattern, i) ==
    IF i < 1 THEN 0
    ELSE IF is_match(pattern, dirs[i].name) THEN i
    ELSE RPositionFrom(dirs, pattern, i - 1)

position_last(dirs, pattern) == RPositionFrom(dirs, pattern, Len(dirs))
\* the scan starts one entry too late
position_skip_first(dirs, pattern) == PositionFrom(dirs, pattern, 2)
\* e.directives.iter().position(|dir| pattern.is_match(dir.name))
position(dirs, pattern) == PositionFrom(dirs, pattern, 1)

NoneFound == [some |-> FALSE, pos |-> 0]

\* the pattern is ignored: the first directive is always the match
find_dir_front(el, pattern) ==
    IF el.directives = <<>> THEN NoneFound ELSE [some |-> TRUE, pos |-> 1]
\* find_dir: None when position is None (the ? operator), else the handle
find_dir(el, pattern) ==
    LET pos == position(el.directives, pattern)
    IN  IF pos = 0 THEN NoneFound ELSE [some |-> TRUE, pos |-> pos]

\* ----------------------------------------------------------------- FoundDir
\* Vec::swap_remove: the last entry moves into the hole
VecSwapRemove(dirs, pos) ==
    [i \in 1..(Len(dirs) - 1) |-> IF i = pos THEN dirs[Len(dirs)] ELSE dirs[i]]
\* Vec::remove: everything after pos shifts left by one
VecRemove(dirs, pos) ==
    [i \in 1..(Len(dirs) - 1) |-> IF i < pos THEN dirs[i] ELSE dirs[i + 1]]

\* the directive is read but stays in the list
take_keep(dirs, pos) == [dir |-> dirs[pos], rest |-> dirs]
\* FoundDir::take: the removed directive and the list it leaves behind
take(dirs, pos) == [dir |-> dirs[pos], rest |-> VecRemove(dirs, pos)]

\* FoundDir::as_ref
as_ref(dirs, pos) == dirs[pos]

\* ------------------------------------------------ abstract converter methods
convert_text == [op |-> "convert_text"]
convert_slot_outlet == [op |-> "convert_slot_outlet"]
convert_comment == [op |-> "convert_comment"]
convert_interpolation == [op |-> "convert_interpolation"]
convert_element(el) == [op |-> "convert_element", e |-> el]
convert_if(n) == [op |-> "convert_if", n |-> n]
convert_for(n) == [op |-> "convert_for", n |-> n]

\* ------------------------------------------------------------- dispatch_ast
dispatch_ast(n) ==
    CASE n.kind = "Text" -> convert_text
      [] n.kind = "Plain" -> convert_element(n.e)
      [] n.kind = "Component" -> convert_element(n.e)
      [] n.kind = "SlotOutlet" -> convert_slot_outlet
      [] n.kind = "Comment" -> convert_comment
      [] n.kind = "Interpolation" -> convert_interpolation
      [] n.kind = "Template" -> convert_element(n.e)

\* -------------------------------------------------------------------- state
VARIABLES
    pc,         \* position of the running call
    e,          \* the Element being searched / converted
    orig,       \* e as it was handed in
    pattern,    \* the pattern given to find_dir
    found,      \* Option<FoundDir>
    shown,      \* what as_ref returned, <<>> if not called
    taken,      \* what take returned, <<>> if not called
    stack,      \* pending convert_structural_dir frames, each holding b
    ret,        \* return value of the innermost finished call, <<>> if none
    elemCalls,  \* the elements convert_element was called with, in order
    ast,        \* AstRoot.children
    idx,        \* next child the into_iter().map() pulls
    body        \* IR nodes collected so far

vars == <<pc, e, orig, pattern, found, shown, taken, stack, ret, elemCalls,
          ast, idx, body>>

NoElement == MkElement(<<>>)

InitFind ==
    /\ pc = "find_start"
    /\ e \in Elements
    /\ pattern \in Patterns
    /\ ast = <<>>

InitStructural ==
    /\ pc = "csd_enter"
    /\ e \in Elements
    /\ pattern = StructuralPattern
    /\ ast = <<>>

InitRoot ==
    /\ pc = "ir_iter"
    /\ e = NoElement
    /\ pattern = StructuralPattern
    /\ ast \in AstRoots

Init ==
    /\ (InitFind \/ InitStructural \/ InitRoot)
    /\ orig = e
    /\ found = NoneFound
    /\ shown = <<>>
    /\ taken = <<>>
    /\ stack = <<>>
    /\ ret = <<>>
    /\ elemCalls = <<>>
    /\ idx = 1
    /\ body = <<>>

\* ------------------------------------------------- find_dir / FoundDir calls
\* let found = find_dir(&mut e, pattern)
FindDir ==
    /\ pc = "find_start"
    /\ found' = find_dir(e, pattern)
    /\ pc' = IF found'.some THEN "find_some" ELSE "find_none"
    /\ UNCHANGED <<e, orig, pattern, shown, taken, stack, ret, elemCalls,
                   ast, idx, body>>

\* found.as_ref()
AsRef ==
    /\ pc = "find_some"
    /\ shown = <<>>
    /\ shown' = <<as_ref(e.directives, found.pos)>>
    /\ UNCHANGED <<pc, e, orig, pattern, found, taken, stack, ret, elemCalls,
                   ast, idx, body>>

\* found.take()  (consumes the handle)
Take ==
    /\ pc = "find_some"
    /\ LET t == take(e.directives, found.pos)
       IN  /\ taken' = <<t.dir>>
           /\ e' = [e EXCEPT !.directives = t.rest]
    /\ found' = NoneFound
    /\ pc' = "find_taken"
    /\ UNCHANGED <<orig, pattern, shown, stack, ret, elemCalls, ast, idx, body>>

\* --------------------------------------------------- convert_structural_dir
\* the Some branch up to the recursive call: find, take, call self on e
CsdTakeAndRecurse ==
    /\ pc = "csd_enter"
    /\ LET dir == find_dir(e, StructuralPattern)
       IN  /\ dir.some
           /\ LET t == take(e.directives, dir.pos)
              IN  /\ e' = [e EXCEPT !.directives = t.rest]
                  /\ stack' = Append(stack, [b |-> t.dir])
    /\ UNCHANGED <<pc, orig, pattern, found, shown, taken, ret, elemCalls,
                   ast, idx, body>>

\* the else branch: self.convert_element(e), then return
CsdConvertElement ==
    /\ pc = "csd_enter"
    /\ ~find_dir(e, StructuralPattern).some
    /\ ret' = <<convert_element(e)>>
    /\ elemCalls' = Append(elemCalls, e)
    /\ pc' = IF stack = <<>> THEN "csd_done" ELSE "csd_return"
    /\ UNCHANGED <<e, orig, pattern, found, shown, taken, stack, ast, idx, body>>

\* the wrong wrapper for b
WrapSwapped(b, n) == IF b.name = "for" THEN convert_if(n) ELSE convert_for(n)
\* if b.name == "for" { convert_for(e) } else { convert_if(e) }
Wrap(b, n) == IF b.name = "for" THEN convert_for(n) ELSE convert_if(n)

\* the recursive call returned into the innermost pending frame
CsdReturn ==
    /\ pc = "csd_return"
    /\ stack # <<>>
    /\ ret' = <<Wrap(stack[Len(stack)].b, ret[1])>>
    /\ stack' = SubSeq(stack, 1, Len(stack) - 1)
    /\ pc' = IF stack' = <<>> THEN "csd_done" ELSE "csd_return"
    /\ UNCHANGED <<e, orig, pattern, found, shown, taken, elemCalls, ast, idx, body>>

\* --------------------------------------------------------------- convert_ir
\* the node is put in front of the ones collected so far
CollectFront(b, n) == <<n>> \o b
\* one pull of .into_iter().map(|n| self.dispatch_ast(n)), collected in order
Collect(b, n) == Append(b, n)

ConvertIrNext ==
    /\ pc = "ir_iter"
    /\ idx <= Len(ast)
    /\ body' = Collect(body, dispatch_ast(ast[idx]))
    /\ idx' = idx + 1
    /\ UNCHANGED <<pc, e, orig, pattern, found, shown, taken, stack, ret,
                   elemCalls, ast>>

\* the iterator is exhausted: IRRoot { body }
ConvertIrDone ==
    /\ pc = "ir_iter"
    /\ idx > Len(ast)
    /\ pc' = "ir_done"
    /\ UNCHANGED <<e, orig, pattern, found, shown, taken, stack, ret,
                   elemCalls, ast, idx, body>>

Next ==
    \/ FindDir
    \/ AsRef
    \/ Take
    \/ CsdTakeAndRecurse
    \/ CsdConvertElement
    \/ CsdReturn
    \/ ConvertIrNext
    \/ ConvertIrDone

Spec == Init /\ [][Next]_vars

\* The conversion is synchronous straight-line code: a call that has started
\* keeps running until it returns.
FairSpec == Spec /\ WF_vars(Next)

\* ------------------------------------------------- vocabulary of the claims
IsConditional(name) == name \in {"if", "else-if", "else"}
IsStructural(name) == IsConditional(name) \/ name = "for"
Matches(p, name) ==
    IF p.kind = "str" THEN name = p.name
    ELSE name \in {p.names[i] : i \in DOMAIN p.names}

StructuralOf(dirs) == SelectSeq(dirs, LAMBDA d : IsStructural(d.name))
PlainOf(dirs) == SelectSeq(dirs, LAMBDA d : ~IsStructural(d.name))
CountIn(dirs, Test(_)) == Cardinality({i \in DOMAIN dirs : Test(dirs[i].name)})
IsFor(name) == name = "for"

IsWrapper(n) == n.op \in {"convert_if", "convert_for"}
ForNode(n) == [op |-> "convert_for", n |-> n]
IfNode(n) == [op |-> "convert_if", n |-> n]
VNode(el) == [op |-> "convert_element", e |-> el]

RECURSIVE WrapperCount(_)
WrapperCount(n) == IF IsWrapper(n) THEN 1 + WrapperCount(n.n) ELSE 0

RECURSIVE Core(_)
Core(n) == IF IsWrapper(n) THEN Core(n.n) ELSE n

\* W(d1)(W(d2)(... W(dn)(core) ...)) for ds = d_i .. d_n
RECURSIVE Nest(_, _, _)
Nest(ds, i, core) ==
    IF i > Len(ds) THEN core
    ELSE IF ds[i].name = "for" THEN ForNode(Nest(ds, i + 1, core))
    ELSE IfNode(Nest(ds, i + 1, core))

InCsd == pc \in {"csd_enter", "csd_return", "csd_done"}
RetWrappers == IF ret = <<>> THEN 0 ELSE WrapperCount(ret[1])
ElementKinds == {"Plain", "Component", "Template"}

\* ------------------------------------------------------------------ claims

\* C1 (as stated): whenever the element handed to convert_structural_dir
\* carries a conditional directive and a `for` directive, in any declaration
\* order, the result is For(If(element's own node)).
C1_ForAlwaysWrapsIf ==
    (pc = "csd_done"
        /\ CountIn(orig.directives, IsConditional) >= 1
        /\ CountIn(orig.directives, IsFor) >= 1)
    => /\ ret[1].op = "convert_for"
       /\ ret[1].n.op = "convert_if"
       /\ ret[1].n.n = VNode(e)

\* C1 (amended): with exactly one conditional directive and exactly one `for`
\* directive on the element, the result is For(If(element's own node)) when
\* `for` is declared first and If(For(element's own node)) when the
\* conditional is declared first.
C1_NestingFollowsDeclaration ==
    (pc = "csd_done"
        /\ CountIn(orig.directives, IsConditional) = 1
        /\ CountIn(orig.directives, IsFor) = 1)
    => LET s == StructuralOf(orig.directives)
       IN  IF s[1].name = "for"
           THEN ret[1] = ForNode(IfNode(VNode(e)))
           ELSE ret[1] = IfNode(ForNode(VNode(e)))

C1_Witness ==
    /\ pc = "csd_done"
    /\ Len(orig.directives) = 3
    /\ orig.directives[1].name = "for"
    /\ orig.directives[2].name = "bind"
    /\ orig.directives[3].name = "else-if"
    /\ ret[1] = ForNode(IfNode(VNode(e)))

\* C2: every Plain / Component / Template child that convert_ir dispatches
\* goes through the structural extraction: a child carrying a structural
\* directive yields an If-/For-node, and the element reaches convert_element
\* only without structural directives.
C2_ElementsRoutedThroughStructural ==
    \A i \in 1..Len(body) :
        ast[i].kind \in ElementKinds =>
            /\ StructuralOf(ast[i].e.directives) # <<>> => IsWrapper(body[i])
            /\ body[i].op = "convert_element" =>
                   StructuralOf(body[i].e.directives) = <<>>

\* C3: find_dir then take returns the matched directive, the one as_ref
\* showed, and leaves the original list minus exactly that entry, the others
\* in their original relative order.
C3_FindTakeRemovesMatch ==
    pc = "find_taken" =>
        /\ shown # <<>> => shown = taken
        /\ Matches(pattern, taken[1].name)
        /\ Len(e.directives) = Len(orig.directives) - 1
        /\ \E k \in DOMAIN orig.directives :
               /\ orig.directives[k] = taken[1]
               /\ e.directives =
                      [i \in 1..(Len(orig.directives) - 1) |->
                          IF i < k THEN orig.directives[i]
                          ELSE orig.directives[i + 1]]

C3_Witness ==
    /\ pc = "find_taken"
    /\ shown # <<>>
    /\ Len(orig.directives) = 3
    /\ taken[1].id = 1
    /\ orig.directives[2] # orig.directives[3]

\* C4: the handle of find_dir refers to the matching directive of lowest
\* index, whatever the order of the names inside a name-set pattern.
C4_FirstMatch ==
    pc = "find_some" =>
        /\ found.some
        /\ found.pos \in DOMAIN orig.directives
        /\ Matches(pattern, orig.directives[found.pos].name)
        /\ \A j \in 1..(found.pos - 1) :
               ~Matches(pattern, orig.directives[j].name)

C4_Witness ==
    /\ pc = "find_some"
    /\ pattern.kind = "arr"
    /\ pattern.names = <<"for", "if">>
    /\ Len(orig.directives) = 3
    /\ orig.directives[2].name = "if"
    /\ orig.directives[3].name = "for"
    /\ found.pos = 2

\* C5: find_dir returns nothing exactly when no directive matches; find_dir
\* and as_ref leave the directive list alone; the list changes only in a
\* step that takes.
C5_OnlyTakeMutates ==
    [][ /\ (pc = "find_start" /\ pc' # "find_start") =>
              /\ found'.some <=>
                     (\E i \in DOMAIN e.directives :
                          Matches(pattern, e.directives[i].name))
              /\ e' = e
        /\ (pc = "find_some" /\ pc' = "find_some") => e' = e
        /\ e' # e =>
              \/ pc = "find_some" /\ pc' = "find_taken"
              \/ pc = "csd_enter" /\ Len(stack') = Len(stack) + 1
      ]_vars

C5_Witness ==
    /\ pc = "find_none"
    /\ Len(orig.directives) = 2
    /\ pattern.kind = "arr"
    /\ Len(pattern.names) = 2
    /\ e = orig

\* C6: convert_ir on k children returns a body of exactly k nodes, the i-th
\* being dispatch_ast of the i-th child.
C6_BodyMatchesChildren ==
    pc = "ir_done" =>
        /\ Len(body) = Len(ast)
        /\ \A i \in 1..Len(ast) : body[i] = dispatch_ast(ast[i])

C6_Witness ==
    /\ pc = "ir_done"
    /\ Len(ast) = 2
    /\ ast[1].kind = "Comment"
    /\ ast[2].kind = "Component"
    /\ Len(ast[2].e.directives) = 2
    /\ Len(body) = 2

\* C7: convert_structural_dir removes every structural directive exactly
\* once, each giving exactly one wrapper; convert_element gets the element
\* without structural directives and with all the others, unchanged and in
\* order.
C7_EachStructuralOnce ==
    InCsd =>
        /\ PlainOf(e.directives) = PlainOf(orig.directives)
        /\ Len(StructuralOf(e.directives)) + Len(stack) + RetWrappers
               = Len(StructuralOf(orig.directives))
        /\ LET s == StructuralOf(orig.directives)
           IN  \A i \in 1..Len(stack) : stack[i].b = s[i]
        /\ pc = "csd_done" =>
              /\ e.directives = PlainOf(orig.directives)
              /\ WrapperCount(ret[1]) = Len(StructuralOf(orig.directives))
              /\ Core(ret[1]) = VNode(e)
              /\ elemCalls = <<e>>

C7_Witness ==
    /\ pc = "csd_done"
    /\ Len(orig.directives) = 3
    /\ orig.directives[1].name = "if"
    /\ orig.directives[2].name = "bind"
    /\ orig.directives[3].name = "if"
    /\ WrapperCount(ret[1]) = 2

\* C8: on an element without structural directives convert_structural_dir
\* returns convert_element of the unmodified element: nothing removed, no
\* wrapper added.
C8_NoStructuralIsPlainConversion ==
    (InCsd /\ StructuralOf(orig.directives) = <<>>) =>
        /\ e = orig
        /\ stack = <<>>
        /\ pc = "csd_done" =>
              /\ ret = <<VNode(orig)>>
              /\ elemCalls = <<orig>>

C8_Witness ==
    /\ pc = "csd_done"
    /\ Len(orig.directives) = 2
    /\ StructuralOf(orig.directives) = <<>>
    /\ ret[1].op = "convert_element"

\* C9: convert_structural_dir terminates: every recursive call is on an
\* element with one directive fewer, the depth never exceeds the number of
\* structural directives, and convert_element is called exactly once.
C9_Terminates ==
    /\ [](InCsd =>
            /\ Len(stack) <= Len(StructuralOf(orig.directives))
            /\ Len(elemCalls) <= 1
            /\ pc = "csd_done" => Len(elemCalls) = 1)
    /\ [][(pc = "csd_enter" /\ Len(stack') = Len(stack) + 1) =>
              Len(e'.directives) = Len(e.directives) - 1]_vars
    /\ (pc = "csd_enter" ~> pc = "csd_done")

C9_Witness ==
    /\ pc = "csd_done"
    /\ Len(StructuralOf(orig.directives)) = 3
    /\ Len(elemCalls) = 1

\* C10: the nesting follows declaration order: with structural directives
\* d1..dn, the result is W(d1)(W(d2)(...W(dn)(convert_element(e'))...)).
C10_NestingInDeclarationOrder ==
    pc = "csd_done" =>
        ret = <<Nest(StructuralOf(orig.directives), 1,
                     VNode([directives |-> PlainOf(orig.directives)]))>>

C10_Witness ==
    /\ pc = "csd_done"
    /\ Len(orig.directives) = 3
    /\ orig.directives[1].name = "else"
    /\ orig.directives[2].name = "for"
    /\ orig.directives[3].name = "if"
    /\ ret[1].op = "convert_if"
    /\ ret[1].n.op = "convert_for"

====
